---- MODULE Spec2Model ----
(***************************************************************************)
(* Model of lambda_function.py: the S3 -> EFS download sync                *)
(* (lambda_handler), the EFS -> S3 upload sync (sync_efs_to_s3) and the    *)
(* key <-> path mapping both of them use.                                  *)
(*                                                                         *)
(* Strings that the code takes apart (keys, paths) are sequences of        *)
(* one-character strings.  Times are integer instants (epoch); a naive     *)
(* datetime is the integer its wall-clock reading shows.                   *)
(***************************************************************************)
EXTENDS Integers, Sequences, FiniteSets, TLC

\* ------------------------------------------------------------------ bounds
MaxTime == 2          \* the clock stops advancing here
MaxRuns == 2          \* invocations (download or upload) per behaviour
MaxKeyLen == 3        \* longest key of the mapping specification

\* ------------------------------------------------------- path operations
\* posixpath.join(a, b) for two arguments
Join(a, b) ==
    IF b # <<>> /\ Head(b) = "/" THEN b
    ELSE IF a = <<>> \/ a[Len(a)] = "/" THEN a \o b
    ELSE a \o <<"/">> \o b

\* index of the last "/" of p, 0 when there is none (str.rfind + 1)
RECURSIVE RFindSep(_, _)
RFindSep(p, i) ==
    IF i = 0 THEN 0
    ELSE IF p[i] = "/" THEN i
    ELSE RFindSep(p, i - 1)

RECURSIVE RStripSep(_)
RStripSep(p) ==
    IF p # <<>> /\ p[Len(p)] = "/" THEN RStripSep(SubSeq(p, 1, Len(p) - 1))
    ELSE p

AllSep(p) == \A i \in 1..Len(p) : p[i] = "/"

\* posixpath.dirname(p)
Dirname(p) ==
    LET head == SubSeq(p, 1, RFindSep(p, Len(p)))
    IN  IF head # <<>> /\ ~AllSep(head) THEN RStripSep(head) ELSE head

\* str.split("/"): the components of p, empty ones included
RECURSIVE SplitFrom(_, _, _)
SplitFrom(p, i, cur) ==
    IF i > Len(p) THEN <<cur>>
    ELSE IF p[i] = "/" THEN <<cur>> \o SplitFrom(p, i + 1, <<>>)
    ELSE SplitFrom(p, i + 1, Append(cur, p[i]))

Split(p) == SplitFrom(p, 1, <<>>)

\* the component loop of posixpath.normpath for an absolute path:
\* "" and "." are dropped, ".." removes the component before it and is
\* dropped at the root
RECURSIVE NormComps(_, _)
NormComps(comps, acc) ==
    IF comps = <<>> THEN acc
    ELSE LET c == Head(comps)
         IN  IF c = <<>> \/ c = <<".">> THEN NormComps(Tail(comps), acc)
             ELSE IF c = <<".", ".">>
                  THEN NormComps(Tail(comps),
                                 IF acc = <<>> THEN acc
                                 ELSE SubSeq(acc, 1, Len(acc) - 1))
             ELSE NormComps(Tail(comps), Append(acc, c))

\* the non-empty components of abspath(p), p absolute
AbsComps(p) == NormComps(Split(p), <<>>)

RECURSIVE CommonLen(_, _)
CommonLen(a, b) ==
    IF a = <<>> \/ b = <<>> \/ Head(a) # Head(b) THEN 0
    ELSE 1 + CommonLen(Tail(a), Tail(b))

RECURSIVE JoinComps(_)
JoinComps(comps) ==
    IF comps = <<>> THEN <<>>
    ELSE IF Len(comps) = 1 THEN Head(comps)
    ELSE Head(comps) \o <<"/">> \o JoinComps(Tail(comps))

\* posixpath.relpath(path, start), both absolute
RelPath(path, start) ==
    LET start_list == AbsComps(start)
        path_list  == AbsComps(path)
        i          == CommonLen(start_list, path_list)
        rel_list   == [n \in 1..(Len(start_list) - i) |-> <<".", ".">>]
                        \o SubSeq(path_list, i + 1, Len(path_list))
    IN  IF rel_list = <<>> THEN <<".">> ELSE JoinComps(rel_list)

\* str.replace('\\', '/')
ReplaceBackslash(s) == [i \in 1..Len(s) |-> IF s[i] = "\\" THEN "/" ELSE s[i]]

\* the value of EFS_PATH, an absolute mount point
EfsPath == <<"/", "m">>

\* lambda_handler: the local path of a key
LocalPath(key) == Join(EfsPath, key)

\* sync_efs_to_s3: the key of a local path
S3Key(local_path) == ReplaceBackslash(RelPath(local_path, EfsPath))

\* ------------------------------------------------------------- the world
\* the keys a bucket may hold, in the order the listing returns them
KeyA == <<"a">>
KeyB == <<"d", "/", "b">>
KeyC == <<"d", "/", "c">>
ListOrder == <<KeyA, KeyB, KeyC>>
Keys == {ListOrder[i] : i \in 1..Len(ListOrder)}

\* list_objects_v2 returns one page; the page holds this many keys
PageSize == 2

\* the UTC offsets of the process's local time zone
TzOffsets == {-1, 0, 1}

VARIABLES
    now,            \* the clock, an instant
    tz,             \* UTC offset of the process's local time zone
    env,            \* os.environ: the names that are set
    remote,         \* the bucket: key -> LastModified (instant)
    local,          \* the files of the file system: path -> mtime (instant)
    dirs,           \* the directories of the file system
    pc,             \* lambda_handler: "idle", "loop", "done"
    response,       \* response['Contents'] of the listing
    idx,            \* position of the for loop in response
    synced_files,   \* lambda_handler's synced_files
    errors,         \* lambda_handler's errors
    result,         \* lambda_handler's return value
    upc,            \* sync_efs_to_s3: "idle", "loop", "done"
    walk,           \* the files os.walk yields
    widx,           \* position of the walk
    uploaded_files, \* sync_efs_to_s3's uploaded_files
    h,              \* history of the current invocation (observation only)
    mpc, mkey, mpath, mback   \* the mapping specification

vars == <<now, tz, env, remote, local, dirs, pc, response, idx,
          synced_files, errors, result, upc, walk, widx, uploaded_files, h,
          mpc, mkey, mpath, mback>>

world == <<tz, env>>
mapvars == <<mpc, mkey, mpath, mback>>
dlvars == <<pc, response, idx, synced_files, errors, result>>
ulvars == <<upc, walk, widx, uploaded_files>>

EmptyFn == [x \in {} |-> 0]

\* f with x mapped to v, x added to the domain when new
Put(f, x, v) == [y \in DOMAIN f \cup {x} |-> IF y = x THEN v ELSE f[y]]

RECURSIVE Ancestors(_)
\* the directories Path(d).mkdir(parents=True, exist_ok=True) leaves in place
Ancestors(d) ==
    IF d = <<>> \/ AllSep(d) THEN {}
    ELSE {d} \cup Ancestors(Dirname(d))

\* datetime.fromtimestamp(t): the local wall-clock reading of instant t
FromTimestamp(t) == t + tz

\* LastModified.replace(tzinfo=None): the UTC reading with the zone dropped
StripTz(t) == t

\* datetime.utcnow()
UtcNow == now

NoResult == [statusCode |-> 0, body |-> [message |-> "none"]]

EmptyHistory ==
    [runs |-> 0, changes |-> 0, at |-> 0, listCalls |-> 0, dlCalls |-> {}, mkdirCalls |-> {},
     pre |-> EmptyFn, failed |-> {}, decided |-> EmptyFn, fatal |-> "none",
     clean |-> FALSE,
     afterClean |-> FALSE, uAfterClean |-> FALSE, udecided |-> EmptyFn]

\* the state the mapping specification keeps the sync state in
SyncAtRest ==
    /\ now = 1 /\ tz = 0 /\ env = {"S3_BUCKET", "EFS_PATH"}
    /\ remote = EmptyFn /\ local = EmptyFn /\ dirs = {}
    /\ pc = "idle" /\ response = <<>> /\ idx = 1
    /\ synced_files = <<>> /\ errors = <<>> /\ result = NoResult
    /\ upc = "idle" /\ walk = <<>> /\ widx = 1 /\ uploaded_files = <<>>
    /\ h = EmptyHistory

MapAtRest == mpc = "rest" /\ mkey = <<>> /\ mpath = <<>> /\ mback = <<>>

\* --------------------------------------------------------- Download Sync
\* s3_client.list_objects_v2(Bucket=bucket_name)['Contents']: the first page
\* of the bucket's objects, in key order; no continuation token is followed
ListObjectsV2 ==
    LET present == SelectSeq(ListOrder, LAMBDA k : k \in DOMAIN remote)
        page    == SubSeq(present, 1, IF Len(present) < PageSize
                                      THEN Len(present) ELSE PageSize)
    IN  [i \in 1..Len(page) |-> [Key |-> page[i], LastModified |-> remote[page[i]]]]

\* mutant: the test for an empty listing is lost
HasContentsAlways(contents) == TRUE

\* 'Contents' not in response: the key is absent when nothing is listed
HasContents(contents) == contents # <<>>

\* lines 58-64: should_download
ShouldDownload(exists, local_mtime, s3_mtime) ==
    IF exists /\ FromTimestamp(local_mtime) >= StripTz(s3_mtime) THEN FALSE ELSE TRUE

\* line 73: error_msg
ErrorMsg(key, e) == <<"Error syncing", key, e>>

\* lines 35-41
NoObjectsResponse ==
    [statusCode |-> 200,
     body |-> [message |-> "No objects to sync", timestamp |-> UtcNow]]

\* mutant: the failed objects are counted as downloaded
SyncResultMiscounts(synced, errs) ==
    [statusCode |-> 200,
     body |-> [message |-> "Sync completed",
               downloaded_files |-> Len(synced) + Len(errs),
               errors |-> Len(errs),
               timestamp |-> UtcNow,
               details |-> [downloaded |-> synced, errors |-> errs]]]

\* lines 77-89
SyncResult(synced, errs) ==
    [statusCode |-> 200,
     body |-> [message |-> "Sync completed",
               downloaded_files |-> Len(synced),
               errors |-> Len(errs),
               timestamp |-> UtcNow,
               details |-> [downloaded |-> synced, errors |-> errs]]]

\* mutant: the top-level except reports success
ErrorResponseOk(e) ==
    [statusCode |-> 200, body |-> [error |-> e, timestamp |-> UtcNow]]

\* lines 96-102
ErrorResponse(e) ==
    [statusCode |-> 500, body |-> [error |-> e, timestamp |-> UtcNow]]

\* no invocation is in its loop: the handlers run one at a time
AtRest == pc # "loop" /\ upc # "loop"

CanInvoke == AtRest /\ h.runs < MaxRuns

\* the history at the entry of lambda_handler
EnterHandler ==
    [h EXCEPT !.runs = @ + 1, !.at = now, !.listCalls = 0, !.dlCalls = {}, !.mkdirCalls = {},
              !.pre = local, !.failed = {}, !.decided = EmptyFn, !.fatal = "none",
              !.afterClean = h.clean, !.clean = FALSE]

\* lines 21-22 raise KeyError: a required variable is not set
ConfigMissing ==
    /\ CanInvoke
    /\ env # {"S3_BUCKET", "EFS_PATH"}
    /\ result' = ErrorResponse(IF "S3_BUCKET" \notin env THEN "S3_BUCKET"
                               ELSE "EFS_PATH")
    /\ pc' = "done"
    /\ response' = <<>> /\ idx' = 1 /\ synced_files' = <<>> /\ errors' = <<>>
    /\ h' = [EnterHandler EXCEPT !.fatal = "config"]
    /\ UNCHANGED <<now, world, remote, local, dirs, ulvars, mapvars>>

\* line 28 raises: the root directory cannot be created
RootMkdirFails ==
    /\ CanInvoke
    /\ env = {"S3_BUCKET", "EFS_PATH"}
    /\ result' = ErrorResponse("mkdir")
    /\ pc' = "done"
    /\ response' = <<>> /\ idx' = 1 /\ synced_files' = <<>> /\ errors' = <<>>
    /\ h' = [EnterHandler EXCEPT !.fatal = "mkdir"]
    /\ UNCHANGED <<now, world, remote, local, dirs, ulvars, mapvars>>

\* line 31 raises: the listing call fails
ListFails ==
    /\ CanInvoke
    /\ env = {"S3_BUCKET", "EFS_PATH"}
    /\ dirs' = dirs \cup Ancestors(EfsPath)
    /\ result' = ErrorResponse("list_objects_v2")
    /\ pc' = "done"
    /\ response' = <<>> /\ idx' = 1 /\ synced_files' = <<>> /\ errors' = <<>>
    /\ h' = [EnterHandler EXCEPT !.listCalls = 1, !.fatal = "list"]
    /\ UNCHANGED <<now, world, remote, local, ulvars, mapvars>>

\* lines 21-41: the listing has no Contents
EmptyBucket ==
    /\ CanInvoke
    /\ env = {"S3_BUCKET", "EFS_PATH"}
    /\ dirs' = dirs \cup Ancestors(EfsPath)
    /\ ~HasContents(ListObjectsV2)
    /\ result' = NoObjectsResponse
    /\ pc' = "done"
    /\ response' = ListObjectsV2
    /\ idx' = 1 /\ synced_files' = <<>> /\ errors' = <<>>
    /\ h' = [EnterHandler EXCEPT !.listCalls = 1]
    /\ UNCHANGED <<now, world, remote, local, ulvars, mapvars>>

\* lines 21-47: the listing has Contents, the loop starts
BeginLoop ==
    /\ CanInvoke
    /\ env = {"S3_BUCKET", "EFS_PATH"}
    /\ dirs' = dirs \cup Ancestors(EfsPath)
    /\ HasContents(ListObjectsV2)
    /\ response' = ListObjectsV2
    /\ synced_files' = <<>> /\ errors' = <<>> /\ idx' = 1
    /\ result' = NoResult
    /\ pc' = "loop"
    /\ h' = [EnterHandler EXCEPT !.listCalls = 1]
    /\ UNCHANGED <<now, world, remote, local, ulvars, mapvars>>

\* what the history keeps of one object's decision
Decision(exists, local_mtime, s3_mtime, should) ==
    [exists |-> exists, local_mtime |-> local_mtime, s3_mtime |-> s3_mtime,
     should |-> should]

\* lines 48-70, nothing raises: the object is skipped or downloaded
SyncObject ==
    /\ pc = "loop" /\ idx <= Len(response)
    /\ LET obj        == response[idx]
           key        == obj.Key
           local_path == LocalPath(key)
           local_dir  == Dirname(local_path)
           exists     == local_path \in DOMAIN local
           mtime      == IF exists THEN local[local_path] ELSE 0
           should     == ShouldDownload(exists, mtime, obj.LastModified)
       IN  /\ dirs' = IF local_dir # <<>> THEN dirs \cup Ancestors(local_dir) ELSE dirs
           /\ IF should
              THEN /\ local' = Put(local, local_path, now)
                   /\ synced_files' = Append(synced_files, key)
              ELSE UNCHANGED <<local, synced_files>>
           /\ h' = [h EXCEPT
                      !.mkdirCalls = IF local_dir # <<>> THEN @ \cup {local_dir} ELSE @,
                      !.dlCalls = IF should THEN @ \cup {key} ELSE @,
                      !.decided = Put(@, key,
                                      Decision(exists, mtime, obj.LastModified, should))]
    /\ idx' = idx + 1
    /\ UNCHANGED <<now, world, remote, pc, response, errors, result, ulvars, mapvars>>

\* mutant: the failure of one object ends the invocation
ObjectErrorAborts(key, e) ==
    /\ errors' = Append(errors, ErrorMsg(key, e))
    /\ idx' = idx + 1
    /\ pc' = "done"
    /\ result' = [statusCode |-> 500, body |-> [error |-> e, timestamp |-> UtcNow]]
    /\ UNCHANGED <<response, synced_files>>

\* lines 72-75: the except clause of the loop body
ObjectError(key, e) ==
    /\ errors' = Append(errors, ErrorMsg(key, e))
    /\ idx' = idx + 1
    /\ UNCHANGED <<pc, response, synced_files, result>>

\* lines 48-55, 72-75: creating the parent directory raises
SyncObjectMkdirFails ==
    /\ pc = "loop" /\ idx <= Len(response)
    /\ LET key       == response[idx].Key
           local_dir == Dirname(LocalPath(key))
       IN  /\ local_dir # <<>>
           /\ ObjectError(key, "mkdir")
           /\ h' = [h EXCEPT !.mkdirCalls = @ \cup {local_dir},
                             !.failed = @ \cup {key}]
    /\ UNCHANGED <<now, world, remote, local, dirs, ulvars, mapvars>>

\* lines 48-69, 72-75: download_file raises
SyncObjectDownloadFails ==
    /\ pc = "loop" /\ idx <= Len(response)
    /\ LET obj        == response[idx]
           key        == obj.Key
           local_path == LocalPath(key)
           local_dir  == Dirname(local_path)
           exists     == local_path \in DOMAIN local
           mtime      == IF exists THEN local[local_path] ELSE 0
           should     == ShouldDownload(exists, mtime, obj.LastModified)
       IN  /\ should
           /\ dirs' = IF local_dir # <<>> THEN dirs \cup Ancestors(local_dir) ELSE dirs
           /\ ObjectError(key, "download_file")
           /\ h' = [h EXCEPT
                      !.mkdirCalls = IF local_dir # <<>> THEN @ \cup {local_dir} ELSE @,
                      !.dlCalls = @ \cup {key},
                      !.failed = @ \cup {key},
                      !.decided = Put(@, key,
                                      Decision(exists, mtime, obj.LastModified, should))]
    /\ UNCHANGED <<now, world, remote, local, ulvars, mapvars>>

\* lines 77-92: the loop is over, the result is returned
Finish ==
    /\ pc = "loop" /\ idx > Len(response)
    /\ result' = SyncResult(synced_files, errors)
    /\ pc' = "done"
    /\ h' = [h EXCEPT !.clean = (errors = <<>>)]
    /\ UNCHANGED <<now, world, remote, local, dirs, response, idx, synced_files,
                   errors, ulvars, mapvars>>

\* ----------------------------------------------------------- Upload Sync
\* os.walk(efs_path): the files under the root
WalkFiles == SelectSeq([i \in 1..Len(ListOrder) |-> LocalPath(ListOrder[i])],
                       LAMBDA p : p \in DOMAIN local)

\* the classes of the exception head_object may raise for a missing key: the
\* one the service model declares, and the one botocore builds from the
\* bodiless 404 of a HEAD request
HeadMissClasses == {"NoSuchKey", "ClientError"}

\* line 132: the except clause catches this class
CatchesHeadMiss(class) == class = "NoSuchKey"

\* lines 122-129: should_upload when head_object returned metadata
ShouldUpload(local_mtime, s3_mtime) ==
    IF FromTimestamp(local_mtime) <= StripTz(s3_mtime) THEN FALSE ELSE TRUE

\* what the history keeps of one file's decision
UDecision(missing, local_mtime, s3_mtime, uploaded) ==
    [missing |-> missing, local_mtime |-> local_mtime, s3_mtime |-> s3_mtime,
     uploaded |-> uploaded]

\* lines 108-112: the walk starts
UploadStart ==
    /\ CanInvoke
    /\ walk' = WalkFiles
    /\ widx' = 1
    /\ uploaded_files' = <<>>
    /\ upc' = "loop"
    /\ h' = [h EXCEPT !.runs = @ + 1, !.at = now, !.udecided = EmptyFn,
                      !.uAfterClean = h.clean, !.clean = FALSE]
    /\ UNCHANGED <<now, world, remote, local, dirs, dlvars, mapvars>>

\* lines 114-139, nothing reaches the outer except: skipped or uploaded
UploadFile ==
    /\ upc = "loop" /\ widx <= Len(walk)
    /\ LET local_path == walk[widx]
           s3_key     == S3Key(local_path)
           missing    == s3_key \notin DOMAIN remote
           s3_mtime   == IF missing THEN 0 ELSE remote[s3_key]
           should     == IF missing THEN TRUE
                         ELSE ShouldUpload(local[local_path], s3_mtime)
       IN  /\ missing => \E class \in HeadMissClasses : CatchesHeadMiss(class)
           /\ IF should
              THEN /\ remote' = Put(remote, s3_key, now)
                   /\ uploaded_files' = Append(uploaded_files, s3_key)
              ELSE UNCHANGED <<remote, uploaded_files>>
           /\ h' = [h EXCEPT !.udecided =
                      Put(@, s3_key, UDecision(missing, local[local_path],
                                               s3_mtime, should))]
    /\ widx' = widx + 1
    /\ UNCHANGED <<now, world, local, dirs, upc, walk, dlvars, mapvars>>

\* lines 123-134, 141-142: head_object raises for a missing key and the
\* inner except does not catch it; the outer except logs it
UploadHeadMissEscapes ==
    /\ upc = "loop" /\ widx <= Len(walk)
    /\ LET local_path == walk[widx]
           s3_key     == S3Key(local_path)
       IN  /\ s3_key \notin DOMAIN remote
           /\ \E class \in HeadMissClasses : ~CatchesHeadMiss(class)
           /\ h' = [h EXCEPT !.udecided =
                      Put(@, s3_key, UDecision(TRUE, local[local_path], 0, FALSE))]
    /\ widx' = widx + 1
    /\ UNCHANGED <<now, world, remote, local, dirs, upc, walk, uploaded_files,
                   dlvars, mapvars>>

\* lines 136-142: upload_file raises; the outer except logs it
UploadFileFails ==
    /\ upc = "loop" /\ widx <= Len(walk)
    /\ LET local_path == walk[widx]
           s3_key     == S3Key(local_path)
           missing    == s3_key \notin DOMAIN remote
       IN  /\ missing => \E class \in HeadMissClasses : CatchesHeadMiss(class)
           /\ IF missing THEN TRUE
              ELSE ShouldUpload(local[local_path], remote[s3_key])
    /\ widx' = widx + 1
    /\ h' = [h EXCEPT !.failed = @ \cup {S3Key(walk[widx])}]
    /\ UNCHANGED <<now, world, remote, local, dirs, upc, walk, uploaded_files,
                   dlvars, mapvars>>

\* line 147: the walk is over, uploaded_files is returned
UploadFinish ==
    /\ upc = "loop" /\ widx > Len(walk)
    /\ upc' = "done"
    /\ UNCHANGED <<now, world, remote, local, dirs, walk, widx, uploaded_files,
                   dlvars, h, mapvars>>

\* ------------------------------------------------------- the environment
MaxChanges == 1       \* writes by other parties per behaviour

\* time passes between invocations
Tick ==
    /\ AtRest /\ now < MaxTime
    /\ now' = now + 1
    /\ UNCHANGED <<world, remote, local, dirs, dlvars, ulvars, h, mapvars>>

\* another party writes an object of the bucket
RemotePut ==
    /\ AtRest /\ h.runs > 0 /\ h.changes < MaxChanges
    /\ \E key \in Keys : remote' = Put(remote, key, now)
    /\ h' = [h EXCEPT !.changes = @ + 1, !.clean = FALSE]
    /\ UNCHANGED <<now, world, local, dirs, dlvars, ulvars, mapvars>>

\* another party writes a file under the root
LocalWrite ==
    /\ AtRest /\ h.runs > 0 /\ h.changes < MaxChanges
    /\ \E key \in Keys :
          /\ local' = Put(local, LocalPath(key), now)
          /\ dirs' = dirs \cup Ancestors(Dirname(LocalPath(key)))
    /\ h' = [h EXCEPT !.changes = @ + 1, !.clean = FALSE]
    /\ UNCHANGED <<now, world, remote, dlvars, ulvars, mapvars>>

\* --------------------------------------------------- the specification
\* a deployment with its configuration complete: any bucket, any local tree
InitConfigured ==
    /\ env = {"S3_BUCKET", "EFS_PATH"}
    /\ tz \in TzOffsets
    /\ \E present \in SUBSET Keys : remote = [k \in present |-> 1]
    /\ \E present \in SUBSET Keys :
          /\ local \in [{LocalPath(k) : k \in present} -> {0, 1}]
          /\ dirs = UNION {Ancestors(Dirname(LocalPath(k))) : k \in present}

\* a deployment with a required variable missing: a full bucket, no local tree
InitMisconfigured ==
    /\ env \in (SUBSET {"S3_BUCKET", "EFS_PATH"}) \ {{"S3_BUCKET", "EFS_PATH"}}
    /\ tz = 0
    /\ remote = [k \in Keys |-> 1]
    /\ local = EmptyFn
    /\ dirs = {}

Init ==
    /\ now = 1
    /\ InitConfigured \/ InitMisconfigured
    /\ pc = "idle" /\ response = <<>> /\ idx = 1
    /\ synced_files = <<>> /\ errors = <<>> /\ result = NoResult
    /\ upc = "idle" /\ walk = <<>> /\ widx = 1 /\ uploaded_files = <<>>
    /\ h = EmptyHistory
    /\ MapAtRest

\* the deployed function: lambda_handler is the only entry point
Next ==
    \/ ConfigMissing
    \/ RootMkdirFails
    \/ ListFails
    \/ EmptyBucket
    \/ BeginLoop
    \/ SyncObject
    \/ SyncObjectMkdirFails
    \/ SyncObjectDownloadFails
    \/ Finish
    \/ Tick
    \/ RemotePut

Spec == Init /\ [][Next]_vars

\* a caller that runs both directions, one invocation at a time, in a
\* process whose local time is UTC (the default of the hosting runtime)
InitSync == Init /\ tz = 0

NextSync ==
    \/ Next
    \/ UploadStart
    \/ UploadFile
    \/ UploadHeadMissEscapes
    \/ UploadFileFails
    \/ UploadFinish
    \/ LocalWrite

SpecSync == InitSync /\ [][NextSync]_vars

\* ------------------------------------------------------------ the claims
Range(seq) == {seq[i] : i \in 1..Len(seq)}

\* the handler returned the result of lines 77-92
Completed ==
    /\ pc = "done"
    /\ "details" \in DOMAIN result.body
    /\ result.body.message = "Sync completed"

\* the keys the error strings of a result name
ErrorKeys(errs) == {errs[i][2] : i \in 1..Len(errs)}

C1_WitnessLast ==
    /\ pc = "done" /\ Len(response) = 2
    /\ h.failed = {response[2].Key}
    /\ synced_files = <<response[1].Key>>

\* C2: for a listed object whose local file exists, download_file is called
\* if and only if the file's modification time is strictly before the
\* object's last-modified time (equal is up to date); for a listed object
\* with no local file it is always called.
C2_StalenessThreshold ==
    \A key \in DOMAIN h.decided :
        LET d == h.decided[key]
        IN  IF d.exists
            THEN (key \in h.dlCalls) <=> (d.local_mtime < d.s3_mtime)
            ELSE key \in h.dlCalls

\* C3: a Download Sync that follows an error-free Download Sync, with no
\* change to the bucket in between, downloads nothing.
C3_Idempotent ==
    (Completed /\ h.afterClean) =>
        /\ result.body.downloaded_files = 0
        /\ result.body.details.downloaded = <<>>

\* C4: a failure before the loop (a required variable missing, the root
\* directory not created, the listing failed) gives status 500 with an error
\* string and a timestamp, and nothing is downloaded; with the bucket variable
\* missing neither the listing nor a download is called.
C4_FatalAbort ==
    /\ (pc = "done" /\ h.fatal # "none") =>
          /\ result.statusCode = 500
          /\ DOMAIN result.body = {"error", "timestamp"}
          /\ result.body.error = (IF h.fatal = "config"
                                  THEN (IF "S3_BUCKET" \notin env THEN "S3_BUCKET"
                                        ELSE "EFS_PATH")
                                  ELSE IF h.fatal = "mkdir" THEN "mkdir"
                                  ELSE "list_objects_v2")
          /\ result.body.timestamp = h.at
          /\ h.dlCalls = {} /\ synced_files = <<>> /\ local = h.pre
    /\ (pc = "done" /\ "S3_BUCKET" \notin env) =>
          /\ h.fatal = "config"
          /\ h.listCalls = 0 /\ h.dlCalls = {}
    /\ (pc = "done" /\ result.statusCode = 500) => h.fatal # "none"

\* C4 witness: the handler returned with the bucket variable missing while
\* the bucket holds objects the local tree lacks.
C4_Witness ==
    /\ pc = "done" /\ "S3_BUCKET" \notin env /\ h.fatal = "config"
    /\ DOMAIN remote # {} /\ local = EmptyFn

\* C4 witness: the listing call failed.
C4_WitnessList == pc = "done" /\ h.fatal = "list" /\ h.listCalls = 1

\* C5: Download Sync considers every object of the bucket, also beyond the
\* first page of the listing: after an error-free run every key of the bucket
\* has a local file that is not stale.  Stated for a process whose local time
\* is UTC, where the two clock readings the code compares are the instants.
C5_CompleteEnumeration ==
    (tz = 0 /\ Completed /\ h.clean) =>
        \A key \in DOMAIN remote :
            /\ key \in DOMAIN h.decided
            /\ LocalPath(key) \in DOMAIN local
            /\ local[LocalPath(key)] >= remote[key]

\* C8 as stated: a completed result carries the total count of objects
\* considered, besides the two counts and the two lists.
C8_ResultCarriesTotal ==
    Completed =>
        \E f \in DOMAIN result.body
                  \ {"message", "details", "timestamp", "downloaded_files", "errors"} :
            result.body[f] = Len(response)

\* C8 as amended: a completed result carries the downloaded count, equal to
\* the length of the downloaded-keys list, the error count, equal to the
\* length of the error-strings list, and both full lists, and no total count;
\* each listed object is in at most one of the lists, once, so the two counts
\* together never exceed the number of objects listed.
C8_ResultContents ==
    Completed =>
        LET body == result.body
        IN  /\ DOMAIN body = {"message", "downloaded_files", "errors", "timestamp",
                              "details"}
            /\ body.downloaded_files = Len(body.details.downloaded)
            /\ body.errors = Len(body.details.errors)
            /\ Range(body.details.downloaded) = h.dlCalls \ h.failed
            /\ ErrorKeys(body.details.errors) = h.failed
            /\ Range(body.details.downloaded) \cap ErrorKeys(body.details.errors) = {}
            /\ Cardinality(Range(body.details.downloaded)) = Len(body.details.downloaded)
            /\ Cardinality(ErrorKeys(body.details.errors)) = Len(body.details.errors)
            /\ Range(body.details.downloaded) \cup ErrorKeys(body.details.errors)
                  \subseteq {response[i].Key : i \in 1..Len(response)}
            /\ body.downloaded_files + body.errors <= Len(response)

\* C8 witness: a completed run with a downloaded object and a failed one.
C8_Witness ==
    /\ Completed
    /\ result.body.downloaded_files = 1 /\ result.body.errors = 1

\* C9: when the listing yields no object, the handler returns status 200 with
\* the message 'No objects to sync', without a per-object directory creation,
\* comparison or download, and no local file changes.
C9_EmptyBucket ==
    (pc = "done" /\ h.fatal = "none" /\ h.listCalls = 1 /\ response = <<>>) =>
        /\ result.statusCode = 200
        /\ result.body.message = "No objects to sync"
        /\ DOMAIN result.body = {"message", "timestamp"}
        /\ h.mkdirCalls = {} /\ h.decided = EmptyFn /\ h.dlCalls = {}
        /\ synced_files = <<>> /\ errors = <<>>
        /\ local = h.pre

\* C9 witness: the handler returned for an empty bucket while the local tree
\* holds files.
C9_Witness ==
    /\ pc = "done" /\ h.fatal = "none" /\ h.listCalls = 1 /\ response = <<>>
    /\ DOMAIN remote = {} /\ local # EmptyFn

\* C6: a file under the root is uploaded, and its key returned, if and only
\* if the bucket has no metadata for the key or the file's modification time
\* is strictly after the object's last-modified time.
C6_UploadDecision ==
    \A key \in DOMAIN h.udecided :
        LET d == h.udecided[key]
        IN  (key \in Range(uploaded_files)) <=>
                (d.missing \/ d.local_mtime > d.s3_mtime)

\* C10: an Upload Sync that follows an error-free Download Sync, with no
\* change to the bucket or the local tree in between, uploads nothing; in
\* particular it uploads none of the objects that Download Sync has just
\* downloaded.
C10_CrossDirectionStable ==
    (upc = "done" /\ h.uAfterClean) =>
        Range(uploaded_files) \cap Range(synced_files) = {}


\* ------------------------------------------- the mapping specification
\* the characters a key is made of
KeyChars == {"a", "b", "/", "\\", "."}

RECURSIVE SeqsUpTo(_)
SeqsUpTo(n) ==
    IF n = 0 THEN {<<>>}
    ELSE LET shorter == SeqsUpTo(n - 1)
         IN  shorter \cup {Append(s, c) : s \in {t \in shorter : Len(t) = n - 1},
                                          c \in KeyChars}

\* object keys are non-empty
MapKeys == SeqsUpTo(MaxKeyLen) \ {<<>>}

InitMap == SyncAtRest /\ MapAtRest

\* lambda_handler line 49 applied to a key of the bucket
MapDownload ==
    /\ mpc = "rest"
    /\ \E key \in MapKeys :
          /\ mkey' = key
          /\ mpath' = LocalPath(key)
    /\ mpc' = "path"
    /\ UNCHANGED <<mback, now, world, remote, local, dirs, dlvars, ulvars, h>>

\* sync_efs_to_s3 lines 117-118 applied to that path
MapUpload ==
    /\ mpc = "path"
    /\ mback' = S3Key(mpath)
    /\ mpc' = "key"
    /\ UNCHANGED <<mkey, mpath, now, world, remote, local, dirs, dlvars, ulvars, h>>

\* the next key
MapReset ==
    /\ mpc = "key"
    /\ mpc' = "rest" /\ mkey' = <<>> /\ mpath' = <<>> /\ mback' = <<>>
    /\ UNCHANGED <<now, world, remote, local, dirs, dlvars, ulvars, h>>

NextMap == MapDownload \/ MapUpload \/ MapReset

SpecMap == InitMap /\ [][NextMap]_vars

\* a key that is a normalised relative path: no leading, trailing or doubled
\* "/", no "." or ".." component
IsPlainKey(key) == JoinComps(NormComps(Split(key), <<>>)) = key

\* C7: for every key K the local path is join(root, K), distinct keys have
\* distinct local paths, and the key derived back from the local path, the
\* way the upload direction derives it, is K.  Stated for the keys that are
\* normalised relative paths.
C7_MappingBijection ==
    IsPlainKey(mkey) =>
        /\ mpc \in {"path", "key"} =>
              /\ mpath = Join(EfsPath, mkey)
              /\ \A other \in MapKeys :
                    (IsPlainKey(other) /\ other # mkey) => LocalPath(other) # mpath
        /\ mpc = "key" => mback = mkey

====
